---- MODULE Spec2Model ----
(***************************************************************************)
(* Camera placement and deferred control activation of the earth renderer. *)
(*                                                                         *)
(* Globe (the class exported by the file stored as src/vite.config.js) and *)
(* the application that drives it (the later of the two main modules in    *)
(* src/unnamed/part_000, lines 219-372), and the start-up and frame loop   *)
(* of the earlier, synchronous application (src/main.js).                  *)
(*                                                                         *)
(* Number representation.  JavaScript numbers that the application passes  *)
(* around are integers of metres and degrees.  A number handed to          *)
(* positionCameraAtTarget is a record [kind, v] so that NaN and Infinity   *)
(* can be passed as well.  Results of the trigonometry are fixed point:    *)
(* heights and horizontal distances in decimetres, latitudes and           *)
(* longitudes in 1e-5 degree, sines and cosines scaled by TrigScale.       *)
(* Whatever is smaller than one unit of that resolution (such as           *)
(* Math.cos(Math.PI / 2) = 6.1e-17) is zero in the model.                  *)
(***************************************************************************)
EXTENDS Integers, Sequences, FiniteSets, TLC

VARIABLES
    app,        \* progress of init(): "start", "ready", "noKey", "noRenderer";
                \* "embedded" when a Globe is driven by its caller directly;
                \* "mainStart", "mainReady", "mainNoKey" for src/main.js
    animating,  \* whether animate() has been started (the frame loop runs)
    params,     \* the module-level params object of the application
    camera,     \* camera.position and the camera's forward direction
    group,      \* tiles.group: its local rotation and its cached matrixWorld
    controls,   \* GlobeControls: enabled flag and the gesture it has accepted
    performed,  \* Globe._initialInteractionPerformed
    listeners,  \* event types whose once-listener is still on the canvas
    lastCall,   \* history: the latest call of positionCameraAtTarget
    lastOp,     \* history: the handler that ran in the latest step
    activations,  \* history: runs of the activation body (lines 102-115)
    redispatched  \* history: events re-dispatched by the activation body

vars == <<app, animating, params, camera, group, controls, performed,
          listeners, lastCall, lastOp, activations, redispatched>>

----------------------------------------------------------------------------
(* Bounds of the model *)

\* number of 1000 m slider steps above the minimum that the model draws
MaxNearSteps == 1
\* number of 10 degree tilt steps (10, 20, ...) that the model draws
MaxTiltSteps == 1

----------------------------------------------------------------------------
(* Program constants *)

targetLat == 3565860        \* 35.6586 degrees, in 1e-5 degree
targetLon == 13974540       \* 139.7454 degrees, in 1e-5 degree
towerHeight == 333          \* metres
MetresPerDegree == 111000   \* flat approximation of one degree of latitude
DistanceMin == 200
DistanceMax == 6500000
DistanceStep == 1000
TiltMin == 0
TiltMax == 90
FarDistance == 200000       \* beyond this the distance handler resets tilt
InitialDistance == 800
InitialTilt == 70
RotationX == "rotateX(-PI/2)"   \* tiles.group.rotation.x = -Math.PI / 2
IdentityMatrix == "identity"    \* matrixWorld of an object never updated

----------------------------------------------------------------------------
(* JavaScript numbers *)

Num(v) == [kind |-> "finite", v |-> v]
NaN == [kind |-> "NaN", v |-> 0]
Infinity == [kind |-> "Infinity", v |-> 0]

\* Number.isFinite
IsFinite(x) == x.kind = "finite"

\* a / b rounded to the nearest integer, b > 0
RoundDiv(a, b) == (2 * a + b) \div (2 * b)

\* Math.cos of a whole multiple of ten degrees in 0..90, times TrigScale
CosTable == <<10000, 9848, 9397, 8660, 7660, 6428, 5000, 3420, 1736, 0>>

\* fixed point scale of the table: the entry of cos(0) = 1
TrigScale == CosTable[1]

Cos(deg) == CosTable[(deg \div 10) + 1]

\* Math.sin of the same angles
Sin(deg) == Cos(90 - deg)

\* d * c / TrigScale without leaving 32 bits
MulTrig(d, c) ==
    (d \div TrigScale) * c + RoundDiv((d % TrigScale) * c, TrigScale)

----------------------------------------------------------------------------
(* Positions, directions, the scene graph *)

\* WGS84_ELLIPSOID.getCartographicToPosition: an injective map of the
\* geodetic point, kept symbolic; m is the transform applied to it so far
GetCartographicToPosition(lat, lon, height) ==
    [kind |-> "finite", lat |-> lat, lon |-> lon, height |-> height,
     m |-> IdentityMatrix, moved |-> "no"]

\* any position with a NaN or infinite component
NonFinitePosition ==
    [kind |-> "nonfinite", lat |-> 0, lon |-> 0, height |-> 0,
     m |-> IdentityMatrix, moved |-> "no"]

\* position of a newly created PerspectiveCamera
OriginPosition ==
    [kind |-> "origin", lat |-> 0, lon |-> 0, height |-> 0,
     m |-> IdentityMatrix, moved |-> "no"]

\* Vector3.applyMatrix4 with the group's matrixWorld, applied to a position
\* that is still in planet-centred coordinates
ApplyMatrix4(p, matrixWorld) ==
    IF p.kind = "finite" THEN [p EXCEPT !.m = matrixWorld] ELSE p

\* Object3D.updateMatrixWorld: recompute the cached world matrix from the
\* local rotation
UpdateMatrixWorld(g) == [g EXCEPT !.matrixWorld = g.rotationX]

\* forward direction of a newly created camera (-Z)
DefaultForward ==
    [kind |-> "default", eye |-> OriginPosition, target |-> OriginPosition]

NonFiniteForward ==
    [kind |-> "nonfinite", eye |-> OriginPosition, target |-> OriginPosition]

\* Object3D.lookAt from position eye: the direction eye -> target; three.js
\* substitutes a fixed axis when the two coincide, and NaN stays NaN
LookAt(eye, target) ==
    IF eye.kind = "nonfinite" \/ target.kind = "nonfinite" THEN NonFiniteForward
    ELSE IF eye = target THEN DefaultForward
    ELSE [kind |-> "toward", eye |-> eye, target |-> target]

NewCamera == [position |-> OriginPosition, forward |-> DefaultForward]

----------------------------------------------------------------------------
(* Globe *)

\* initializeTiles, lines 58-80: the group is rotated and added to the
\* scene; its matrixWorld is not recomputed here
initializeTiles == [rotationX |-> RotationX, matrixWorld |-> IdentityMatrix]

NoGesture == [gesture |-> "none", pointer |-> "center"]

\* initializeControls, lines 82-130: the controls and, when they start
\* disabled, the two once-listeners on the canvas
initializeControls(disableControls) ==
    [controls  |-> [enabled |-> ~disableControls, pending |-> NoGesture],
     listeners |-> IF disableControls THEN {"pointerdown", "wheel"} ELSE {}]

\* middle of the tower, in decimetres
TargetHeight == (towerHeight * 10) \div 2

\* positionCameraAtTarget with the world matrix refreshed after the target
\* conversion instead of before it
positionCameraAtTarget_LateRefresh(cam, grp, distanceFromTower, tiltAngle) ==
    LET targetPosition ==
            ApplyMatrix4(GetCartographicToPosition(
                             targetLat, targetLon, TargetHeight),
                         grp.matrixWorld)
        g2 == UpdateMatrixWorld(grp)
        elevationFromHorizontal == 90 - tiltAngle.v
        cameraDistance ==
            MulTrig(distanceFromTower.v * 10, Cos(elevationFromHorizontal))
        verticalDistance ==
            MulTrig(distanceFromTower.v * 10, Sin(elevationFromHorizontal))
        cameraLat ==
            targetLat - RoundDiv(cameraDistance * 10, MetresPerDegree \div 1000)
        position ==
            IF IsFinite(distanceFromTower) /\ IsFinite(tiltAngle)
            THEN ApplyMatrix4(GetCartographicToPosition(
                                  cameraLat, targetLon,
                                  TargetHeight + verticalDistance),
                              g2.matrixWorld)
            ELSE NonFinitePosition
    IN  [camera |-> [position |-> position,
                     forward  |-> LookAt(position, targetPosition)],
         group |-> g2,
         targetPosition |-> targetPosition,
         targetMatrix |-> grp.matrixWorld,
         cameraMatrix |-> g2.matrixWorld,
         signal |-> "none"]

\* positionCameraAtTarget with a geodetic point derived from the pose by
\* offsets: elevation, side of the target, starting latitude, and whether
\* lookAt runs before the position is written
PlacementVariant(cam, grp, distanceFromTower, tiltAngle,
                 elevation, south, fromLat, lookFirst) ==
    LET g1 == UpdateMatrixWorld(grp)
        targetPosition ==
            ApplyMatrix4(GetCartographicToPosition(
                             targetLat, targetLon, TargetHeight),
                         g1.matrixWorld)
        cameraDistance == MulTrig(distanceFromTower.v * 10, Cos(elevation))
        verticalDistance == MulTrig(distanceFromTower.v * 10, Sin(elevation))
        delta == RoundDiv(cameraDistance * 10, MetresPerDegree \div 1000)
        cameraLat == IF south THEN fromLat - delta ELSE fromLat + delta
        position ==
            IF IsFinite(distanceFromTower) /\ IsFinite(tiltAngle)
            THEN ApplyMatrix4(GetCartographicToPosition(
                                  cameraLat, targetLon,
                                  TargetHeight + verticalDistance),
                              g1.matrixWorld)
            ELSE NonFinitePosition
    IN  [camera |-> [position |-> position,
                     forward  |-> IF lookFirst
                                  THEN LookAt(cam.position, targetPosition)
                                  ELSE LookAt(position, targetPosition)],
         group |-> g1,
         targetPosition |-> targetPosition,
         targetMatrix |-> g1.matrixWorld,
         cameraMatrix |-> g1.matrixWorld,
         signal |-> "none"]

\* lookAt called before camera.position is written
positionCameraAtTarget_LookAtFirst(cam, grp, distanceFromTower, tiltAngle) ==
    PlacementVariant(cam, grp, distanceFromTower, tiltAngle,
                     90 - tiltAngle.v, TRUE, targetLat, TRUE)

\* the latitude offset taken from the camera's previous latitude
positionCameraAtTarget_Relative(cam, grp, distanceFromTower, tiltAngle) ==
    PlacementVariant(cam, grp, distanceFromTower, tiltAngle,
                     90 - tiltAngle.v, TRUE,
                     IF cam.position.kind = "finite"
                     THEN cam.position.lat ELSE targetLat,
                     FALSE)

\* the tilt used as the elevation, without the inversion of line 154
positionCameraAtTarget_NoInversion(cam, grp, distanceFromTower, tiltAngle) ==
    PlacementVariant(cam, grp, distanceFromTower, tiltAngle,
                     tiltAngle.v, TRUE, targetLat, FALSE)

\* the camera displaced to the north of the target
positionCameraAtTarget_North(cam, grp, distanceFromTower, tiltAngle) ==
    PlacementVariant(cam, grp, distanceFromTower, tiltAngle,
                     90 - tiltAngle.v, FALSE, targetLat, FALSE)

\* Globe.positionCameraAtTarget, lines 137-178.  cam and grp are the camera
\* and tiles.group before the call.  The result holds both after the call,
\* the target position, the world matrix each conversion used, and what
\* the call signalled to its caller (the method has no throw and returns
\* undefined)
positionCameraAtTarget(cam, grp, distanceFromTower, tiltAngle) ==
    LET g1 == UpdateMatrixWorld(grp)                              \* 139
        targetPosition ==
            ApplyMatrix4(GetCartographicToPosition(
                             targetLat, targetLon, TargetHeight),
                         g1.matrixWorld)                           \* 142-149
        finite == IsFinite(distanceFromTower) /\ IsFinite(tiltAngle)
        elevationFromHorizontal == 90 - tiltAngle.v                \* 154
        cameraDistance ==
            MulTrig(distanceFromTower.v * 10,
                    Cos(elevationFromHorizontal))                  \* 159
        verticalDistance ==
            MulTrig(distanceFromTower.v * 10,
                    Sin(elevationFromHorizontal))                  \* 160
        cameraHeight == TargetHeight + verticalDistance            \* 161
        cameraLat ==
            targetLat
            - RoundDiv(cameraDistance * 10, MetresPerDegree \div 1000) \* 165
        g2 == g1                 \* nothing in 150-172 touches the group
        position ==
            IF finite
            THEN ApplyMatrix4(GetCartographicToPosition(
                                  cameraLat, targetLon, cameraHeight),
                              g2.matrixWorld)                      \* 167-173
            ELSE NonFinitePosition
    IN  [camera |-> [position |-> position,
                     forward  |-> LookAt(position, targetPosition)], \* 176
         group |-> g2,
         targetPosition |-> targetPosition,
         targetMatrix |-> g1.matrixWorld,
         cameraMatrix |-> g2.matrixWorld,
         signal |-> "none"]

----------------------------------------------------------------------------
(* Events on the canvas *)

\* The listener GlobeControls itself keeps on the canvas (attached by its
\* constructor, line 85): an event is taken up only while enabled
ControlsHandle(c, event) ==
    IF c.enabled
    THEN [c EXCEPT !.pending =
              [gesture |-> IF event.type = "wheel" THEN "zoom" ELSE "drag",
               pointer |-> event.pointer]]
    ELSE c

RECURSIVE DispatchEvent(_, _)
RECURSIVE activateControlsAndRedispatch(_, _)

\* the activation body without the guard of lines 98-100
activateControlsAndRedispatch_NoGuard(g, event) ==
    DispatchEvent([g EXCEPT !.controls.enabled = TRUE,
                            !.performed = TRUE,
                            !.activations = @ + 1,
                            !.redispatched = @ + 1],
                  event)

\* activateControlsAndRedispatch, lines 96-116.  g is the part of the state
\* a dispatch can change: controls, performed, listeners and the two
\* history counters
activateControlsAndRedispatch(g, event) ==
    IF g.performed                                                \* 98-100
    THEN g
    ELSE LET g1 == [g EXCEPT !.controls.enabled = TRUE,           \* 102
                             !.performed = TRUE,                  \* 103
                             !.activations = @ + 1]
             copy == event      \* 107-111: same type, same fields
         IN  DispatchEvent([g1 EXCEPT !.redispatched = @ + 1],
                           copy)                                  \* 113-115

\* EventTarget.dispatchEvent on renderer.domElement: the listeners run in
\* the order they were added, the controls' own one first (line 85), then
\* the once-listener of the event's type (lines 119-128), which is removed
\* before it is called
DispatchEvent(g, event) ==
    LET g1 == [g EXCEPT !.controls = ControlsHandle(g.controls, event)]
    IN  IF event.type \in g1.listeners
        THEN activateControlsAndRedispatch(
                 [g1 EXCEPT !.listeners = @ \ {event.type}], event)
        ELSE g1

\* GlobeControls.update, called at line 185: a disabled control leaves the
\* camera alone; an enabled one applies the gesture it has taken up.  A zoom
\* moves the camera along the ray under the pointer and keeps its
\* orientation, a drag moves and turns it
ControlsUpdate(c, cam) ==
    IF ~c.enabled \/ c.pending.gesture = "none"
    THEN [controls |-> c, camera |-> cam]
    ELSE [controls |-> [c EXCEPT !.pending = NoGesture],
          camera |->
            IF c.pending.gesture = "zoom"
            THEN [cam EXCEPT !.position.moved =
                      IF c.pending.pointer = "center" /\ @ # "offAxis"
                      THEN "alongView" ELSE "offAxis"]
            ELSE [position |-> [cam.position EXCEPT !.moved = "offAxis"],
                  forward |-> [cam.forward EXCEPT !.kind = "free"]]]

\* Globe.update, lines 183-196: the controls move the camera; the rest
\* hands the camera to the tiles renderer
update(c, cam) == ControlsUpdate(c, cam)

----------------------------------------------------------------------------
(* The application *)

\* values the distance slider can deliver: DistanceMin plus whole steps,
\* clamped to DistanceMax (add(params, 'distanceFromCenter', 200, 6500000,
\* 1000), line 307)
LastNearDistance ==
    DistanceMin + ((FarDistance - DistanceMin) \div DistanceStep) * DistanceStep

DistanceChoices ==
    {v \in {DistanceMin + k * DistanceStep : k \in 0..MaxNearSteps}
           \cup {LastNearDistance, LastNearDistance + DistanceStep, DistanceMax} :
        DistanceMin <= v /\ v <= DistanceMax}

\* values the tilt slider can deliver (add(params, 'tiltAngle', 0, 90, 1),
\* line 318), those the cosine table covers
TiltChoices ==
    {v \in {TiltMin, TiltMax} \cup {10 * k : k \in 1..MaxTiltSteps} :
        TiltMin <= v /\ v <= TiltMax}

NoCall ==
    [op |-> "none", by |-> "none", distance |-> Num(0), tilt |-> Num(0),
     before |-> NewCamera, signal |-> "none",
     targetMatrix |-> IdentityMatrix, cameraMatrix |-> IdentityMatrix]

\* the history record of one call of positionCameraAtTarget with result r
Call(by, distance, tilt, before, r) ==
    [op |-> "place", by |-> by, distance |-> distance, tilt |-> tilt,
     before |-> before, signal |-> r.signal,
     targetMatrix |-> r.targetMatrix, cameraMatrix |-> r.cameraMatrix]

\* a call of globe.positionCameraAtTarget(params.distanceFromCenter,
\* params.tiltAngle) with the params p, from handler by
Place(by, p, cam, grp) ==
    LET r == positionCameraAtTarget(cam, grp, Num(p.distanceFromCenter),
                                    Num(p.tiltAngle))
    IN  /\ camera' = r.camera
        /\ group' = r.group
        /\ lastCall' = Call(by, Num(p.distanceFromCenter), Num(p.tiltAngle),
                            cam, r)

\* params, lines 229-232
InitialParams ==
    [tiltAngle |-> InitialTilt, distanceFromCenter |-> InitialDistance]

Init ==
    /\ app = "start"
    /\ animating = FALSE
    /\ params = InitialParams
    /\ camera = NewCamera
    /\ group = initializeTiles
    /\ controls = initializeControls(TRUE).controls
    /\ performed = FALSE
    /\ listeners = {}
    /\ lastCall = NoCall
    /\ lastOp = "none"
    /\ activations = 0
    /\ redispatched = 0

\* init(), lines 234-281, and the start of the frame loop, lines 364-372
InitApp(apiKey, rendererCreated) ==
    /\ app = "start"
    /\ lastOp' = IF apiKey /\ rendererCreated THEN "init" ELSE "initFailed"
    /\ IF ~apiKey                                                 \* 238-241
       THEN /\ app' = "noKey"
            /\ UNCHANGED <<animating, params, camera, group, controls,
                           performed, listeners, lastCall, activations,
                           redispatched>>
       ELSE IF ~rendererCreated        \* 244-248; a throw ends in 370-372
       THEN /\ app' = "noRenderer"
            /\ UNCHANGED <<animating, params, camera, group, controls,
                           performed, listeners, lastCall, activations,
                           redispatched>>
       ELSE LET c == initializeControls(TRUE)                     \* 268
            IN  /\ app' = "ready"
                /\ controls' = c.controls
                /\ listeners' = c.listeners
                /\ performed' = FALSE
                /\ Place("init", params, NewCamera, initializeTiles) \* 274
                /\ animating' = TRUE                              \* 365-368
                /\ UNCHANGED <<params, activations, redispatched>>

\* the distance handler placing the camera before it resets the tilt
DistanceChange_PlaceFirst(v) ==
    /\ app = "ready"
    /\ lastOp' = "distance"
    /\ LET p1 == [params EXCEPT !.distanceFromCenter = v]
           p2 == IF p1.distanceFromCenter > FarDistance
                 THEN [p1 EXCEPT !.tiltAngle = 0]
                 ELSE p1
       IN  /\ Place("distance", p1, camera, group)
           /\ params' = p2
    /\ UNCHANGED <<app, animating, controls, performed, listeners,
                   activations, redispatched>>

\* the distance handler resetting the distance instead of the tilt
DistanceChange_ResetWrongField(v) ==
    /\ app = "ready"
    /\ lastOp' = "distance"
    /\ LET p1 == [params EXCEPT !.distanceFromCenter = v]
           p2 == IF p1.distanceFromCenter > FarDistance
                 THEN [p1 EXCEPT !.distanceFromCenter = 0]
                 ELSE p1
       IN  /\ params' = p2
           /\ Place("distance", p2, camera, group)
    /\ UNCHANGED <<app, animating, controls, performed, listeners,
                   activations, redispatched>>

\* distanceController.onChange, lines 309-316, after the slider stored v
DistanceChange(v) ==
    /\ app = "ready"
    /\ lastOp' = "distance"
    /\ LET p1 == [params EXCEPT !.distanceFromCenter = v]
           p2 == IF p1.distanceFromCenter > FarDistance           \* 311
                 THEN [p1 EXCEPT !.tiltAngle = 0]                 \* 312
                 ELSE p1
       IN  /\ params' = p2
           /\ Place("distance", p2, camera, group)                \* 315
    /\ UNCHANGED <<app, animating, controls, performed, listeners,
                   activations, redispatched>>

\* tiltController.onChange, lines 320-322, after the slider stored v
TiltChange(v) ==
    /\ app = "ready"
    /\ lastOp' = "tilt"
    /\ LET p1 == [params EXCEPT !.tiltAngle = v]
       IN  /\ params' = p1
           /\ Place("tilt", p1, camera, group)                    \* 321
    /\ UNCHANGED <<app, animating, controls, performed, listeners,
                   activations, redispatched>>

\* animate(), lines 351-361, once the loop has been started: without a
\* globe and a renderer the callback only re-arms itself; otherwise
\* globe.update() and renderer.render(), which recomputes the world matrices
\* of the scene
Frame ==
    /\ animating
    /\ app \in {"start", "ready", "noKey", "noRenderer"}
    /\ IF app # "ready"                                           \* 354
       THEN /\ lastOp' = "idleFrame"
            /\ UNCHANGED <<controls, camera, group>>
       ELSE /\ lastOp' = "frame"
            /\ LET u == update(controls, camera)                  \* 357
               IN  /\ controls' = u.controls
                   /\ camera' = u.camera
            /\ group' = UpdateMatrixWorld(group)                  \* 360
    /\ UNCHANGED <<app, animating, params, performed, listeners, lastCall,
                   activations, redispatched>>

\* the browser delivers an event of the given type to the canvas
CanvasEvent(type, pointer) ==
    /\ app \in {"ready", "mainReady"}
    /\ lastOp' = type
    /\ LET g == DispatchEvent(
                    [controls |-> controls, performed |-> performed,
                     listeners |-> listeners, activations |-> activations,
                     redispatched |-> redispatched],
                    [type |-> type, pointer |-> pointer])
       IN  /\ controls' = g.controls
           /\ performed' = g.performed
           /\ listeners' = g.listeners
           /\ activations' = g.activations
           /\ redispatched' = g.redispatched
    /\ UNCHANGED <<app, animating, params, camera, group, lastCall>>

PointerDown == \E pointer \in {"center", "off"} : CanvasEvent("pointerdown", pointer)

Wheel == \E pointer \in {"center", "off"} : CanvasEvent("wheel", pointer)

Next ==
    \/ \E apiKey \in BOOLEAN, rendererCreated \in BOOLEAN :
           InitApp(apiKey, rendererCreated)
    \/ \E v \in DistanceChoices : DistanceChange(v)
    \/ \E v \in TiltChoices : TiltChange(v)
    \/ Frame
    \/ PointerDown
    \/ Wheel

Spec == Init /\ [][Next]_vars

----------------------------------------------------------------------------
(* Globe driven through its public methods by any caller *)

\* arguments a caller can pass to positionCameraAtTarget
CoreDistances ==
    {Num(v) : v \in DistanceChoices \cup {InitialDistance, 0, -InitialDistance}}
    \cup {NaN, Infinity}

CoreTilts == {Num(v) : v \in TiltChoices \cup {InitialTilt}} \cup {NaN, Infinity}

\* new Globe(scene, camera, renderer, apiKey, disableControls), lines 39-56
InitCore ==
    /\ app = "embedded"
    /\ animating = FALSE
    /\ params = InitialParams
    /\ camera = NewCamera
    /\ group = initializeTiles
    /\ \E disableControls \in BOOLEAN :
           /\ controls = initializeControls(disableControls).controls
           /\ listeners = initializeControls(disableControls).listeners
    /\ performed = FALSE
    /\ lastCall = NoCall
    /\ lastOp = "none"
    /\ activations = 0
    /\ redispatched = 0

\* globe.positionCameraAtTarget(distance, tilt)
ApiPlace(distance, tilt) ==
    /\ app = "embedded"
    /\ lastOp' = "api"
    /\ LET r == positionCameraAtTarget(camera, group, distance, tilt)
       IN  /\ camera' = r.camera
           /\ group' = r.group
           /\ lastCall' = Call("api", distance, tilt, camera, r)
    /\ UNCHANGED <<app, animating, params, controls, performed, listeners,
                   activations, redispatched>>

NextCore ==
    \E distance \in CoreDistances, tilt \in CoreTilts : ApiPlace(distance, tilt)

SpecCore == InitCore /\ [][NextCore]_vars

----------------------------------------------------------------------------
(* The synchronous application, src/main.js *)

\* camera.position.set(4800000, 2570000, 14720000); camera.lookAt(0, 0, 0),
\* main.js lines 40-47
MainCameraPosition ==
    [kind |-> "fixed", lat |-> 0, lon |-> 0, height |-> 0,
     m |-> IdentityMatrix, moved |-> "no"]

MainCamera ==
    [position |-> MainCameraPosition,
     forward |-> LookAt(MainCameraPosition, OriginPosition)]

\* new GlobeControls(scene, camera, renderer.domElement, null), main.js
\* lines 72-74: enabled from the start, no deferred activation
MainControls == [enabled |-> TRUE, pending |-> NoGesture]

\* tiles.group.rotation.x = -Math.PI / 2; scene.add(tiles.group), main.js
\* lines 64-65
MainGroup == [rotationX |-> RotationX, matrixWorld |-> IdentityMatrix]

\* one run of the body of animate() past its guard, main.js lines 107-117
MainFrameWork(c, cam, grp) ==
    LET u == ControlsUpdate(c, cam)                               \* 108
    IN  [controls |-> u.controls, camera |-> u.camera,
         group |-> UpdateMatrixWorld(grp)]                        \* 117

\* the module before its last two statements run
InitMain ==
    /\ app = "mainStart"
    /\ animating = FALSE
    /\ params = InitialParams
    /\ camera = NewCamera
    /\ group = initializeTiles
    /\ controls = initializeControls(TRUE).controls
    /\ performed = FALSE
    /\ listeners = {}
    /\ lastCall = NoCall
    /\ lastOp = "none"
    /\ activations = 0
    /\ redispatched = 0

\* init(); animate(); main.js lines 125-127: init (19-81) returns early
\* without an API key, and animate (102-123) is called in either case, so
\* its body runs once here
MainStart(apiKey) ==
    /\ app = "mainStart"
    /\ animating' = TRUE                                          \* 103
    /\ IF ~apiKey                                                 \* 23-27
       THEN /\ app' = "mainNoKey"
            /\ lastOp' = "initFailed"                             \* 105
            /\ UNCHANGED <<camera, group, controls>>
       ELSE LET w == MainFrameWork(MainControls, MainCamera, MainGroup)
            IN  /\ app' = "mainReady"
                /\ lastOp' = "frame"
                /\ camera' = w.camera
                /\ group' = w.group
                /\ controls' = w.controls
    /\ UNCHANGED <<params, performed, listeners, lastCall, activations,
                   redispatched>>

\* animate() with the guard of line 105 left out
MainAnimate_NoGuard ==
    /\ animating
    /\ app \in {"mainReady", "mainNoKey"}
    /\ lastOp' = "frame"
    /\ LET w == MainFrameWork(controls, camera, group)
       IN  /\ controls' = w.controls
           /\ camera' = w.camera
           /\ group' = w.group
    /\ UNCHANGED <<app, animating, params, performed, listeners, lastCall,
                   activations, redispatched>>

\* animate() as the frame callback, main.js lines 102-123
MainAnimate ==
    /\ animating
    /\ app \in {"mainReady", "mainNoKey"}
    /\ IF app # "mainReady"                                       \* 105
       THEN /\ lastOp' = "idleFrame"
            /\ UNCHANGED <<controls, camera, group>>
       ELSE /\ lastOp' = "frame"
            /\ LET w == MainFrameWork(controls, camera, group)
               IN  /\ controls' = w.controls
                   /\ camera' = w.camera
                   /\ group' = w.group
    /\ UNCHANGED <<app, animating, params, performed, listeners, lastCall,
                   activations, redispatched>>

NextMain ==
    \/ \E apiKey \in BOOLEAN : MainStart(apiKey)
    \/ MainAnimate
    \/ PointerDown
    \/ Wheel

\* either application, from its start
InitApps == Init \/ InitMain

NextApps == Next \/ NextMain

SpecApps == InitApps /\ [][NextApps]_vars

----------------------------------------------------------------------------
(* Properties *)

Placing == {"init", "distance", "tilt", "api"}

\* the target point's position under the group's current transform
TargetWorld ==
    ApplyMatrix4(GetCartographicToPosition(targetLat, targetLon, TargetHeight),
                 group.rotationX)

\* the camera's forward direction points from its position to the target:
\* it was aimed at the target from where it is, or from a point it has since
\* left along that line
LooksAtTarget ==
    /\ camera.forward.kind = "toward"
    /\ camera.forward.target = TargetWorld
    /\ camera.position.moved \in {"no", "alongView"}
    /\ camera.forward.eye = [camera.position EXCEPT !.moved = "no"]

InvalidArguments(c) ==
    \/ ~IsFinite(c.distance)
    \/ ~IsFinite(c.tilt)
    \/ c.distance.v <= 0

\* C1: a placement whose distance is non-finite or <= 0, or whose tilt is
\* non-finite, is rejected: the caller is signalled InvalidParameter and the
\* camera is left as it was before the call.
C1_InvalidPlacementRejected ==
    (lastOp \in Placing /\ InvalidArguments(lastCall))
        => /\ lastCall.signal = "InvalidParameter"
           /\ camera = lastCall.before

\* C2: within one placement the world matrix applied to the target and the
\* one applied to the camera position are the same snapshot, the one
\* refreshed at the start of the call.
C2_SameTransformSnapshot ==
    lastCall.op = "place"
        => /\ lastCall.targetMatrix = lastCall.cameraMatrix
           /\ lastCall.targetMatrix = group.rotationX
           /\ (lastOp \in Placing /\ camera.position.kind = "finite")
                  => camera.position.m = camera.forward.target.m

\* the first placement found the cached matrix stale and both conversions
\* used the refreshed one
C2_Witness ==
    /\ lastOp = "init"
    /\ lastCall.op = "place"
    /\ initializeTiles.matrixWorld # initializeTiles.rotationX
    /\ lastCall.targetMatrix = RotationX
    /\ camera.position.m = RotationX
    /\ camera.forward.target.m = RotationX

\* C3 as stated: in every state after the first placement the camera's
\* forward direction points from the camera position to the transformed
\* target.
C3_AlwaysLooksAtTarget == lastCall.op = "place" => LooksAtTarget

\* C3 as amended: the camera looks at the transformed target in every state
\* after the first placement in which the controls are still disabled, and
\* in the state right after every placement; once a pointerdown or wheel
\* event has enabled the controls, a frame may move the camera off the
\* target until the next placement.
C3_LooksAtTargetWhileUndisturbed ==
    (lastCall.op = "place" /\ (~controls.enabled \/ lastOp \in Placing))
        => LooksAtTarget

\* a slider change re-aims a camera that the enabled controls had turned
\* away from the target
C3_Witness ==
    /\ lastOp = "tilt"
    /\ controls.enabled
    /\ lastCall.before.forward.kind = "free"
    /\ LooksAtTarget

\* C4: the pose a placement writes depends only on its arguments: it equals
\* the pose the same call writes on a newly constructed Globe, and calling
\* again with the same arguments from any reachable state changes nothing.
C4_PlacementStateless ==
    /\ lastOp \in Placing
           => camera = positionCameraAtTarget(NewCamera, initializeTiles,
                                              lastCall.distance,
                                              lastCall.tilt).camera
    /\ app = "ready"
           => \A d \in DistanceChoices, t \in TiltChoices :
                  LET once == positionCameraAtTarget(camera, group,
                                                     Num(d), Num(t))
                      twice == positionCameraAtTarget(once.camera, once.group,
                                                      Num(d), Num(t))
                  IN  twice.camera = once.camera

\* a placement that found the camera moved by the controls, and whose
\* arguments differ from those of the first placement
C4_Witness ==
    /\ lastOp = "distance"
    /\ lastCall.before.position.moved = "offAxis"
    /\ lastCall.distance # Num(InitialDistance)
    /\ camera.position.moved = "no"

\* C5: after every slider handler (and init) the latest placement was made
\* by that handler with the current values of both parameters.
C5_PoseFollowsParameters ==
    lastOp \in {"init", "distance", "tilt"}
        => /\ lastCall.op = "place"
           /\ lastCall.by = lastOp
           /\ lastCall.distance = Num(params.distanceFromCenter)
           /\ lastCall.tilt = Num(params.tiltAngle)

\* a distance change that reset a tilted view: the camera was south of the
\* target before, and the placement already used the tilt of 0
C5_Witness ==
    /\ lastOp = "distance"
    /\ params.distanceFromCenter > FarDistance
    /\ lastCall.before.position.kind = "finite"
    /\ lastCall.before.position.lat < targetLat
    /\ lastCall.tilt = Num(0)
    /\ camera.position.lat = targetLat

\* C6: every placement the application makes receives a distance within
\* DistanceMin..DistanceMax and a tilt within TiltMin..TiltMax, and the
\* parameters themselves stay within these bounds.
C6_ArgumentsWithinBounds ==
    /\ DistanceMin <= params.distanceFromCenter
    /\ params.distanceFromCenter <= DistanceMax
    /\ TiltMin <= params.tiltAngle
    /\ params.tiltAngle <= TiltMax
    /\ lastCall.op = "place"
           => /\ IsFinite(lastCall.distance) /\ IsFinite(lastCall.tilt)
              /\ DistanceMin <= lastCall.distance.v
              /\ lastCall.distance.v <= DistanceMax
              /\ TiltMin <= lastCall.tilt.v
              /\ lastCall.tilt.v <= TiltMax

\* the distance handler placed the camera at the far end of the slider
\* after resetting the tilt
C6_Witness ==
    /\ lastOp = "distance"
    /\ lastCall.distance = Num(DistanceMax)
    /\ lastCall.tilt = Num(TiltMin)
    /\ lastCall.before.position.kind = "finite"
    /\ lastCall.before.position.lat < targetLat

ValidArguments(c) ==
    IsFinite(c.distance) /\ IsFinite(c.tilt) /\ c.distance.v > 0

\* C7: with tilt 0 and a valid distance the camera is converted from the
\* geodetic point (targetLat, targetLon, towerHeight/2 + distance).
C7_TopDownAboveTarget ==
    (lastOp = "api" /\ ValidArguments(lastCall) /\ lastCall.tilt = Num(0))
        => camera.position =
               ApplyMatrix4(GetCartographicToPosition(
                                targetLat, targetLon,
                                TargetHeight + lastCall.distance.v * 10),
                            group.rotationX)

C7_Witness ==
    /\ lastOp = "api"
    /\ lastCall.tilt = Num(0)
    /\ lastCall.distance = Num(DistanceMax)
    /\ lastCall.before.position.kind = "finite"
    /\ lastCall.before.position.lat # targetLat
    /\ camera.position.height = TargetHeight + DistanceMax * 10

\* C8: with tilt 90 and a valid distance the camera is converted from the
\* geodetic point (targetLat - distance/111000 degrees, targetLon,
\* towerHeight/2).
C8_HorizontalSouthOfTarget ==
    (lastOp = "api" /\ ValidArguments(lastCall) /\ lastCall.tilt = Num(90))
        => camera.position =
               ApplyMatrix4(GetCartographicToPosition(
                                targetLat
                                - RoundDiv(lastCall.distance.v * 100,
                                           MetresPerDegree \div 1000),
                                targetLon, TargetHeight),
                            group.rotationX)

C8_Witness ==
    /\ lastOp = "api"
    /\ lastCall.tilt = Num(90)
    /\ lastCall.distance = Num(InitialDistance)
    /\ camera.position.height = TargetHeight
    /\ camera.position.lat < targetLat
    /\ camera.position.lon = targetLon

\* C9: whenever the distance parameter exceeds FarDistance the tilt
\* parameter is 0, and so is the tilt of the placement just made.
C9_FarViewIsTopDown ==
    (app = "ready" /\ params.distanceFromCenter > FarDistance)
        => /\ params.tiltAngle = 0
           /\ lastOp \in Placing => lastCall.tilt = Num(0)

\* the state of the deferred activation in one state
ActivationState ==
    app = "ready"
        => /\ activations \in {0, 1}
           /\ redispatched = activations
           /\ controls.enabled = (activations = 1)
           /\ performed = (activations = 1)
           /\ activations = 0 => listeners = {"pointerdown", "wheel"}
           /\ (activations = 1 /\ lastOp \in {"pointerdown", "wheel"})
                  => controls.pending.gesture # "none"

\* C10: the controls stay disabled until the first pointerdown or wheel
\* event; that event enables them, and the single re-dispatched copy is
\* taken up by the enabled controls; no later event runs the activation
\* body or re-dispatches again, and the controls are never disabled again.
C10_ActivationExactlyOnce ==
    /\ []ActivationState
    /\ [][/\ controls.enabled => controls'.enabled
          /\ activations = 1 => (activations' = 1 /\ redispatched' = 1)]_vars

\* both event types have arrived: the second one found the guard set
C10_Witness ==
    /\ app = "ready"
    /\ listeners = {}
    /\ activations = 1
    /\ redispatched = 1
    /\ controls.enabled

Uninitialised == {"noKey", "noRenderer", "mainNoKey"}

\* C11: frame work (controls/tiles update and render) runs only where
\* initialisation succeeded.  Where it failed, nothing was created, no
\* placement was ever made, every step since was the failed init itself or a
\* frame callback that returned at its guard, and the asynchronous
\* application never started the frame loop.
C11_NoWorkWhenUninitialised ==
    /\ lastOp = "frame" => app \in {"ready", "mainReady"}
    /\ lastOp \in {"init", "distance", "tilt"} => app = "ready"
    /\ app \in Uninitialised
           => /\ lastOp \in {"initFailed", "idleFrame"}
              /\ lastCall = NoCall
              /\ camera = NewCamera
              /\ group = initializeTiles
              /\ listeners = {}
              /\ ~controls.enabled /\ controls.pending = NoGesture
    /\ app \in {"noKey", "noRenderer"} => ~animating

\* the synchronous application without an API key: the loop runs, and a
\* frame callback has returned at its guard
C11_Witness ==
    /\ app = "mainNoKey"
    /\ animating
    /\ lastOp = "idleFrame"
    /\ camera = NewCamera

====
